---- MODULE Spec2Model ----
(***************************************************************************)
(* A model of the secret-management module of the trout job                *)
(* (job/src/esm.ts): the memoized key derivation through attestation and   *)
(* the lockbox, the confirmation poll, and the encrypt/decrypt envelope.   *)
(*                                                                         *)
(* Several job processes share one chain: the head the web3 gateway        *)
(* reports and the lockbox registry.  Every await of the source is a       *)
(* position of a process; a network call acts at the step that performs it.*)
(***************************************************************************)
EXTENDS Integers, Sequences, FiniteSets, TLC

\* ------------------------------------------------------------------ bounds

\* Job processes sharing the chain.
NumProcs == 2
\* encrypt/decrypt calls a process issues in a run.
MaxCalls == 2
\* Highest block number the gateway reports.
MaxHead == 3
\* Times the gateway's reported head may fall back by one block.
MaxRegress == 1
\* Sleeps the confirmation poll takes in one wait of the model.
MaxSleeps == 1
\* Steps the wall clock advances by in a run.
MaxTicks == 3
\* Byte lengths of the model's AEAD (deoxysii.KeySize, NonceSize) and of the
\* longest plaintext a call encrypts.
KeyLen == 1
NonceLen == 1
MaxPtLen == 1
\* Token ids the NFTrout contract can hold, the tokens its constructor mints
\* to itself (numClaimants), the highest stud fee, and the most tokens one
\* output of a Mint task asks for.
MaxTokens == 4
NumClaimants == 3
MaxFee == 1
MaxQuantity == 2
\* Entries in the list a task of an accepted report carries.
MaxItems == 1

\* --------------------------------------------------------------- constants

LATEST_KEY_ID == 1
TEST_KEY_BYTE == 42
\* 60 * 60 (line 60): the seconds a registration is valid for.
ONE_HOUR == 3600
\* The wall clock when a run starts and the step it advances by, in ms.
StartMs == 1500
TickMs == 700

Procs == 1..NumProcs
\* The process whose calls the run follows.
Main == 1
Slots == 1..MaxCalls
KeyIds == {0, 1, 2}
TcbIds == {"tcbA"}

\* Byte values the inputs are drawn from.
PtBytes == {255}
NonceBytes == {0, 255}
\* Fill bytes of the keys the lockbox registry generates.
KeyFills == {7, 9}

\* ------------------------------------------------------------------- codec

Fill(n, b) == [i \in 1..n |-> b]

\* A counter of the model counts up to its bound and stays there.
UpTo(n, max) == IF n < max THEN n + 1 ELSE n

RECURSIVE SeqsUpTo(_, _)
SeqsUpTo(S, n) ==
    IF n = 0 THEN {<<>>}
    ELSE LET shorter == SeqsUpTo(S, n - 1)
         IN  shorter \cup {Append(s, b) : s \in {t \in shorter : Len(t) = n - 1}, b \in S}

SeqsOf(S, n) == {s \in SeqsUpTo(S, n) : Len(s) = n}

\* utils.encode: a byte string as hex digits, two per byte, high digit first.
\* A hex string is the sequence of its digits' values.
encode(bytes) ==
    [i \in 1..(2 * Len(bytes)) |->
        IF i % 2 = 1 THEN bytes[(i + 1) \div 2] \div 16
                     ELSE bytes[i \div 2] % 16]

\* utils.decode: the bytes a hex string spells.
decode(hex) ==
    [i \in 1..(Len(hex) \div 2) |-> hex[2 * i - 1] * 16 + hex[2 * i]]

\* ethers.utils.arrayify of a hex value read from a contract.
arrayify(hex) == decode(hex)

\* Fault of the absence test: no value is taken for absent.
IsAbsentNever(hex) == FALSE

\* Fault of the absence test: only the first digit is looked at.
IsAbsentFirstDigit(hex) == Len(hex) >= 1 /\ hex[1] = 0

\* /^(0x)?0+$/.test(key): the registry's all-zero "absent" value.
IsAbsent(hex) == Len(hex) >= 1 /\ \A i \in 1..Len(hex) : hex[i] = 0

\* -------------------------------------------------------------------- AEAD

\* The deoxysii AEAD, idealised: the keystream byte masks the plaintext and
\* the tag is a collision-free function of (key, nonce, plaintext), here the
\* triple itself padded to a fixed size.
TagSize == KeyLen + NonceLen + MaxPtLen

KeyStream(key, nonce, i) == (key[1] + 3 * nonce[1] + i) % 256

Pad(s, n) == [i \in 1..n |-> IF i <= Len(s) THEN s[i] ELSE 0]

Tag(key, nonce, pt) == key \o nonce \o Pad(pt, MaxPtLen)

\* cipher.encrypt(nonce, data)
Seal(key, nonce, pt) ==
    [i \in 1..Len(pt) |-> (pt[i] + KeyStream(key, nonce, i)) % 256] \o Tag(key, nonce, pt)

Unmask(key, nonce, ct) ==
    [i \in 1..Len(ct) |-> (ct[i] + 256 - KeyStream(key, nonce, i)) % 256]

\* cipher.decrypt(nonce, data): the plaintext, or a failure when the tag
\* does not verify.
OpenOk(key, nonce, data) ==
    /\ Len(data) >= TagSize
    /\ Len(data) - TagSize <= MaxPtLen
    /\ Len(nonce) = NonceLen
    /\ LET ct == SubSeq(data, 1, Len(data) - TagSize)
           pt == Unmask(key, nonce, ct)
       IN  SubSeq(data, Len(data) - TagSize + 1, Len(data)) = Tag(key, nonce, pt)

Open(key, nonce, data) == Unmask(key, nonce, SubSeq(data, 1, Len(data) - TagSize))

\* ------------------------------------------------------------------- state

VARIABLES
    head,        \* block number of the chain head the gateway reports
    regress,     \* times the reported head has fallen back so far
    lockbox,     \* the lockbox registry: TcbId -> key as hex (all zero: absent)
    memoPolicy,  \* what memoizeAsync does with a failed computation
    prom,        \* prom[p]: the async invocations (promises) of process p
    fetchMemo,   \* fetchMemo[p]: the invocation memoizeAsync holds for fetchKeySapphire
    cipherMemo,  \* cipherMemo[p][keyId]: the invocation it holds for getCipher(keyId)
    calls,       \* calls[p][s]: the encrypt/decrypt calls of process p
    net,         \* net[p]: network calls process p has made, by kind
    clock,       \* Date.now(): the wall clock, in ms
    job,         \* the job's main (nftrout.ts) in process Main, and its files
    nft          \* the NFTrout contract: token owners, stud fees, last call

vars == <<head, regress, lockbox, memoPolicy, prom, fetchMemo, cipherMemo, calls, net,
          clock, job, nft>>

\* What the secret-management module does not write.
restVars == <<clock, job, nft>>

chainVars == <<head, regress>>

NoBox == [keyId |-> 0, nonce |-> <<>>, data |-> <<>>]

NoCall ==
    [op |-> "none", pc |-> "idle", pt |-> <<>>, box |-> NoBox, keyId |-> 0,
     await |-> 0, how |-> "", kind |-> "none", want |-> <<>>,
     key |-> <<>>, out |-> <<>>, outBox |-> NoBox, err |-> ""]

\* The call has returned or thrown.
Settled(c) == c.pc \in {"done", "failed"}

NoNet == [blocks |-> 0, attests |-> 0, getKeys |-> 0, createKeys |-> 0]

NoReg ==
    [baseBlockHash |-> <<>>, baseBlockNumber |-> 0, expiry |-> 0, registrant |-> 0,
     tokenExpiry |-> 0]

\* An invocation of an async function: its promise (st, key, err) and the
\* position and locals of its body.  Of sendAttestation it also records the
\* receipt (status and TcbId of the Attested event, "" for none); of
\* getOrCreateKey the value of its first read, its lockbox reads and
\* createKey transactions, the status of the createKey receipt (-1: none),
\* and whether its createKey was included after another's (lost).
NewInvocation(fn, arg) ==
    [fn |-> fn, arg |-> arg, st |-> "pending", pc |-> "start", await |-> 0,
     now |-> 0, exp |-> 0, cur |-> 0, reg |-> NoReg, ref |-> 0, tcb |-> "", caller |-> "", rand |-> 0,
     sleeps |-> 0, reads |-> 0, seen |-> {}, first |-> <<>>, gets |-> 0, creates |-> 0,
     lost |-> FALSE, attRcpt |-> <<>>, creRcpt |-> -1, key |-> <<>>, err |-> ""]

\* A trout.json of the inputs: its tokenId and its seed, a number or a Box.
NoMeta == [tokenId |-> "", kind |-> "none", num |-> 0, box |-> NoBox]

\* The descriptor nftrout writes to trout.json (lines 40-45).
NoDesc == [left |-> "", right |-> "", tokenId |-> "", seed |-> NoBox]

\* An invocation of nftrout (lines 32-51): its parameters, its position, and
\* whether main awaits it.
NoTrout ==
    [pc |-> "none", leftId |-> "", rightId |-> "", seed |-> 0, desc |-> NoDesc,
     awaited |-> FALSE]

\* The job: main's position and locals, the nftrout invocation, the seed
\* whose drawing trout.svg holds (-1: not written), trout.json, and the
\* exit code of the process (-1: running).
NoJob ==
    [pc |-> "access", left |-> NoMeta, right |-> NoMeta, gen |-> NoTrout,
     svg |-> -1, json |-> NoDesc, exit |-> -1]

Plaintexts == SeqsUpTo(PtBytes, MaxPtLen)
Nonces == SeqsOf(NonceBytes, NonceLen)

\* ---------------------------------------------------- the NFTrout contract

\* address(0), address(this), and the accounts that call the contract.
Zero == "0x0"
This == "NFTrout"
Users == {"alice", "bob"}
Addrs == Users \cup {This}
\* _startTokenId() is 1 (lines 286-288).
TokenIds == 1..MaxTokens
Fees == 0..MaxFee

\* struct ClaimRange (lines 85-88).
ClaimRange(startTokenId, quantity) == [startTokenId |-> startTokenId, quantity |-> quantity]

\* The leaves of the tree claimantsRoot commits to: abi.encode(claimant, ranges)
\* of every claimant (line 93).
Leaves ==
    { <<"alice", <<ClaimRange(1, 1)>>>>,
      <<"bob", <<ClaimRange(2, 1), ClaimRange(3, 1)>>>> }

\* The last call the contract took and its outcome: the token range of the
\* transfer hook for a transfer, a burn or a mint; the arguments, the outcome
\* and the tokens that changed owner for a claim.
Called(op, from, to, startTokenId, quantity) ==
    [op |-> op, from |-> from, to |-> to, startTokenId |-> startTokenId,
     quantity |-> quantity, ranges |-> <<>>, valid |-> FALSE, result |-> "ok",
     moved |-> {}]

\* The contract after its constructor (lines 51-83): tokens 1..numClaimants
\* minted to the contract itself, no stud fee set.
Deployed ==
    [owners      |-> [t \in TokenIds |-> IF t <= NumClaimants THEN This ELSE Zero],
     nextTokenId |-> NumClaimants + 1,
     studFees    |-> [t \in TokenIds |-> 0],
     last        |-> Called("constructor", Zero, This, 1, NumClaimants)]

TestKey == Fill(KeyLen, TEST_KEY_BYTE)

Init ==
    /\ head = 1
    /\ regress = 0
    /\ lockbox = [t \in TcbIds |-> encode(Fill(KeyLen, 0))]
    /\ memoPolicy \in {"keep", "retry"}
    /\ prom = [p \in Procs |-> <<>>]
    /\ fetchMemo = [p \in Procs |-> 0]
    /\ cipherMemo = [p \in Procs |-> [k \in KeyIds |-> 0]]
    /\ calls = [p \in Procs |-> [s \in Slots |-> NoCall]]
    /\ net = [p \in Procs |-> NoNet]
    /\ clock = StartMs
    /\ job = NoJob
    /\ nft = Deployed

\* ------------------------------------------------------------ memoization

\* memoizeAsync: whether the cache holds an invocation for the call.
MemoHas(entry) == entry # 0

\* memoizeAsync: the cache entry once invocation id has settled with st.  A
\* resolved invocation stays for the process lifetime; what becomes of a
\* failed one is the policy of the run.
MemoAfter(entry, id, st) ==
    IF memoPolicy = "retry" /\ st = "rejected" /\ entry = id THEN 0 ELSE entry

\* A settled invocation: its body has ended and its locals are gone.
Ended(inv) ==
    [NewInvocation(inv.fn, inv.arg) EXCEPT !.pc = "end", !.tcb = inv.tcb,
        !.first = inv.first, !.gets = inv.gets, !.creates = inv.creates,
        !.lost = inv.lost, !.attRcpt = inv.attRcpt, !.creRcpt = inv.creRcpt]
Resolved(inv, key) == [Ended(inv) EXCEPT !.st = "resolved", !.key = key]
Rejected(inv, err) == [Ended(inv) EXCEPT !.st = "rejected", !.err = err]

\* Fault of line 60: the milliseconds of Date.now() taken for seconds.
oneHourFromNowMs(ms) == ms + ONE_HOUR

\* line 60: Math.floor(Date.now() / 1000) + 60 * 60
oneHourFromNow(ms) == (ms \div 1000) + ONE_HOUR

\* A call of the memoized fetchKeySapphire with invocations P and cache
\* entry fm: the body starts only when the cache holds nothing, and runs to
\* its first await, the read of the latest block.
fetchKeySapphire(P, fm) ==
    IF MemoHas(fm)
    THEN [prom |-> P, fetchMemo |-> fm, id |-> fm]
    ELSE [prom |-> Append(P, [NewInvocation("fetchKeySapphire", 0)
                                 EXCEPT !.now = clock,
                                        !.exp = oneHourFromNow(clock),
                                        !.pc = "getBlockLatest"]),
          fetchMemo |-> Len(P) + 1, id |-> Len(P) + 1]

\* The body of getCipher(keyId) (lines 76-80) taking one branch of its if
\* chain: the test key, the attested key (awaiting fetchKeySapphire), or
\* the unknown-key error.
getCipherBody(P, cm, fm, keyId, branch) ==
    LET id == Len(P) + 1
        inv == NewInvocation("getCipher", keyId)
    IN  IF branch = "test"
        THEN [prom |-> Append(P, Resolved(inv, Fill(KeyLen, TEST_KEY_BYTE))),
              cipherMemo |-> [cm EXCEPT ![keyId] = id],
              fetchMemo |-> fm, id |-> id]
        ELSE IF branch = "sapphire"
        THEN LET f == fetchKeySapphire(Append(P, [inv EXCEPT !.pc = "awaitKey"]), fm)
             IN  [prom |-> [f.prom EXCEPT ![id].await = f.id],
                  cipherMemo |-> [cm EXCEPT ![keyId] = id],
                  fetchMemo |-> f.fetchMemo, id |-> id]
        ELSE [prom |-> Append(P, Rejected(inv, "unknown key")),
              cipherMemo |-> [cm EXCEPT ![keyId] = MemoAfter(id, id, "rejected")],
              fetchMemo |-> fm, id |-> id]

Branch(keyId) ==
    IF keyId = 0 THEN "test" ELSE IF keyId = 1 THEN "sapphire" ELSE "unknown"

\* Faults of getCipher: declared without memoizeAsync; without the
\* unknown-key branch; with the test-key branch never taken.
getCipherUnmemoized(P, cm, fm, keyId) ==
    getCipherBody(P, cm, 0, keyId, Branch(keyId))

getCipherNoUnknown(P, cm, fm, keyId) ==
    IF MemoHas(cm[keyId])
    THEN [prom |-> P, cipherMemo |-> cm, fetchMemo |-> fm, id |-> cm[keyId]]
    ELSE getCipherBody(P, cm, fm, keyId, IF keyId = 0 THEN "test" ELSE "sapphire")

getCipherNoTestKey(P, cm, fm, keyId) ==
    IF MemoHas(cm[keyId])
    THEN [prom |-> P, cipherMemo |-> cm, fetchMemo |-> fm, id |-> cm[keyId]]
    ELSE getCipherBody(P, cm, fm, keyId, IF keyId \in {0, 1} THEN "sapphire" ELSE "unknown")

\* A call of the memoized getCipher(keyId) (line 75): the invocation the
\* cache holds, or a new one.
getCipher(P, cm, fm, keyId) ==
    IF MemoHas(cm[keyId])
    THEN [prom |-> P, cipherMemo |-> cm, fetchMemo |-> fm, id |-> cm[keyId]]
    ELSE getCipherBody(P, cm, fm, keyId, Branch(keyId))

\* ------------------------------------------------------------------- calls

FreeSlot(p, s) ==
    /\ calls[p][s].op = "none"
    /\ \A t \in Slots : t < s => calls[p][t].op # "none"

\* The call awaits the cipher of keyId (lines 85 and 95).
AwaitCipher(p, s, c, keyId) ==
    LET g == getCipher(prom[p], cipherMemo[p], fetchMemo[p], keyId)
    IN  /\ prom' = [prom EXCEPT ![p] = g.prom]
        /\ cipherMemo' = [cipherMemo EXCEPT ![p] = g.cipherMemo]
        /\ fetchMemo' = [fetchMemo EXCEPT ![p] = g.fetchMemo]
        /\ calls' = [calls EXCEPT ![p][s] =
                        [c EXCEPT !.pc = "awaitCipher", !.keyId = keyId, !.await = g.id,
                                  !.how = IF ~MemoHas(cipherMemo[p][keyId]) THEN "started"
                                          ELSE IF g.prom[g.id].st = "pending" THEN "joined"
                                          ELSE "cached"]]

\* lines 84-85: encrypt(data) called, up to its await of the cipher.
encryptCall(p, s, pt) ==
    /\ FreeSlot(p, s)
    /\ AwaitCipher(p, s, [NoCall EXCEPT !.op = "encrypt", !.pt = pt, !.kind = "encrypt"],
                   LATEST_KEY_ID)

\* encrypt(data), to its await of the cipher.
encryptStart(p, s, pt) ==
    /\ encryptCall(p, s, pt)
    /\ UNCHANGED <<chainVars, lockbox, memoPolicy, restVars, net>>

\* lines 87-91: the Box encrypt returns.
encryptBox(key, keyId, nonce, pt) ==
    [keyId |-> keyId, nonce |-> encode(nonce), data |-> encode(Seal(key, nonce, pt))]

\* encrypt(data), from the cipher to the Box it returns.
encryptResume(p, s, nonce) ==
    LET c == calls[p][s]
        inv == prom[p][c.await]
    IN  /\ c.op = "encrypt" /\ c.pc = "awaitCipher"
        /\ inv.st # "pending"
        /\ calls' = [calls EXCEPT ![p][s] =
              IF inv.st = "rejected"
              THEN [c EXCEPT !.pc = "failed", !.err = inv.err]
              ELSE [c EXCEPT !.pc = "done", !.key = inv.key,
                             !.outBox = encryptBox(inv.key, c.keyId, nonce, c.pt)]]
        /\ UNCHANGED <<chainVars, lockbox, memoPolicy, restVars, prom, fetchMemo, cipherMemo, net>>

\* line 95: decrypt(box) called, up to its await of the cipher.
decryptCall(p, s, box, kind, want) ==
    /\ FreeSlot(p, s)
    /\ AwaitCipher(p, s, [NoCall EXCEPT !.op = "decrypt", !.box = box, !.kind = kind,
                                        !.want = want],
                   box.keyId)

\* decrypt(box), to its await of the cipher.
decryptStart(p, s, box, kind, want) ==
    /\ decryptCall(p, s, box, kind, want)
    /\ UNCHANGED <<chainVars, lockbox, memoPolicy, restVars, net>>

\* Faults of decrypt: the data handed to the cipher as hex; the cipher's
\* failure swallowed.
decryptOkUndecoded(key, box) == OpenOk(key, decode(box.nonce), box.data)

decryptOkUnchecked(key, box) == TRUE

\* line 96: whether cipher.decrypt(decode(nonce), decode(data)) returns, and
\* what it returns.
decryptOk(key, box) == OpenOk(key, decode(box.nonce), decode(box.data))

decryptOut(key, box) == Open(key, decode(box.nonce), decode(box.data))

\* decrypt(box), from the cipher to the plaintext or the failure.
decryptResume(p, s) ==
    LET c == calls[p][s]
        inv == prom[p][c.await]
    IN  /\ c.op = "decrypt" /\ c.pc = "awaitCipher"
        /\ inv.st # "pending"
        /\ calls' = [calls EXCEPT ![p][s] =
              IF inv.st = "rejected"
              THEN [c EXCEPT !.pc = "failed", !.err = inv.err, !.box = NoBox]
              ELSE IF decryptOk(inv.key, c.box)
              THEN [c EXCEPT !.pc = "done", !.key = inv.key, !.box = NoBox,
                             !.out = decryptOut(inv.key, c.box)]
              ELSE [c EXCEPT !.pc = "failed", !.key = inv.key, !.box = NoBox,
                             !.err = "authentication failure"]]
        /\ UNCHANGED <<chainVars, lockbox, memoPolicy, restVars, prom, fetchMemo, cipherMemo, net>>

\* -------------------------------------------------------------- derivation

Running(p, i, fn, pc) ==
    /\ i \in 1..Len(prom[p])
    /\ prom[p][i].fn = fn
    /\ prom[p][i].st = "pending"
    /\ prom[p][i].pc = pc

\* Network calls of a kind a process is counted for: those of MaxCalls
\* derivations whose waits sleep MaxSleeps times each.
MaxNet == MaxCalls * (2 * MaxSleeps + 4)

Count(p, kind) == [net EXCEPT ![p][kind] = UpTo(@, MaxNet)]

\* The invocation settles: its promise, and the cache entries that hold it.
Settle(p, i, inv) ==
    /\ prom' = [prom EXCEPT ![p][i] = inv]
    /\ fetchMemo' = [fetchMemo EXCEPT ![p] = MemoAfter(@, i, inv.st)]
    /\ cipherMemo' = [cipherMemo EXCEPT ![p] =
                         [k \in KeyIds |-> MemoAfter(@[k], i, inv.st)]]

Continue(p, i, inv) ==
    /\ prom' = [prom EXCEPT ![p][i] = inv]
    /\ UNCHANGED <<fetchMemo, cipherMemo>>

\* line 61: currentBlock = await provider.getBlock('latest')
getBlockLatest(p, i) ==
    /\ Running(p, i, "fetchKeySapphire", "getBlockLatest")
    /\ Continue(p, i, [prom[p][i] EXCEPT !.cur = head, !.pc = "getBlockPrev"])
    /\ net' = Count(p, "blocks")
    /\ UNCHANGED <<chainVars, lockbox, memoPolicy, restVars, calls>>

\* provider.getBlock(number): the block of that number, named by its hash.
getBlock(number) == [number |-> number, hash |-> <<"block", number>>]

\* Fault of line 62: the registration based on the head itself.
prevBlockHead(number) == getBlock(number)

\* line 62: provider.getBlock(currentBlock.number - 1)
prevBlock(number) == getBlock(number - 1)

\* lines 63-69: the registration of the process's local wallet, based on
\* the block before the head.
Registration(block, expiry, p) ==
    [baseBlockHash |-> block.hash, baseBlockNumber |-> block.number,
     expiry |-> expiry, registrant |-> p, tokenExpiry |-> expiry]

\* lines 62-70: prevBlock = await provider.getBlock(currentBlock.number - 1),
\* the registration built on it and its quote.
getBlockPrev(p, i) ==
    /\ Running(p, i, "fetchKeySapphire", "getBlockPrev")
    /\ Continue(p, i, [prom[p][i] EXCEPT
                          !.reg = Registration(prevBlock(prom[p][i].cur),
                                               prom[p][i].exp, p),
                          !.pc = "attest"])
    /\ net' = Count(p, "blocks")
    /\ UNCHANGED <<chainVars, lockbox, memoPolicy, restVars, calls>>

\* line 120: tx = await attok.attest(quote, reg)
attest(p, i) ==
    /\ Running(p, i, "fetchKeySapphire", "attest")
    /\ Continue(p, i, [prom[p][i] EXCEPT !.pc = "attestWait"])
    /\ net' = Count(p, "attests")
    /\ UNCHANGED <<chainVars, lockbox, memoPolicy, restVars, calls>>

\* Fault of the wait for a receipt: a failed transaction's receipt is
\* returned like any other.
TxWaitReturns(status) == FALSE

\* tx.wait() of ethers: rejects when the receipt's status is 0.
TxWaitRejects(status) == status = 0

\* Fault of sendAttestation: the TcbId returned without the confirmation wait.
attestedUnconfirmed(inv, tcbId, blockNumber) ==
    [inv EXCEPT !.tcb = tcbId, !.ref = blockNumber, !.caller = "sendAttestation",
                !.sleeps = 0, !.reads = 0, !.seen = {}, !.pc = "getKey"]

\* lines 130-132 of sendAttestation: with the TcbId of the receipt, into
\* waitForConfirmation on that receipt before the TcbId is returned.
attested(inv, tcbId, blockNumber) ==
    [inv EXCEPT !.tcb = tcbId, !.ref = blockNumber, !.caller = "sendAttestation",
                !.sleeps = 0, !.reads = 0, !.seen = {}, !.pc = "confirmRead"]

\* lines 122-131 of sendAttestation: the receipt of the attest transaction,
\* included in the head block, with its status and the TcbId of its Attested
\* event ("" when it has none); then into waitForConfirmation.
attestWait(p, i, status, tcbId) ==
    /\ Running(p, i, "fetchKeySapphire", "attestWait")
    /\ LET inv == [prom[p][i] EXCEPT !.attRcpt = <<status, tcbId>>]
       IN  IF TxWaitRejects(status)
           THEN Settle(p, i, Rejected(inv, "transaction failed"))
           ELSE IF status # 1
           THEN Settle(p, i, Rejected(inv, "attestation tx failed"))
           ELSE IF tcbId = ""
           THEN Settle(p, i, Rejected(inv, "could not retrieve attestation id"))
           ELSE Continue(p, i, attested(inv, tcbId, head))
    /\ UNCHANGED <<chainVars, lockbox, memoPolicy, restVars, calls, net>>

\* Fault of waitForConfirmation: the loop test inverted.
waitForConfirmationInverted(inv, number) ==
    IF number # inv.ref
    THEN [inv EXCEPT !.cur = number, !.seen = @ \cup {number},
                     !.reads = UpTo(@, MaxSleeps + 1), !.pc = "confirmSleep"]
    ELSE [inv EXCEPT !.cur = number, !.seen = @ \cup {number},
                     !.reads = UpTo(@, MaxSleeps + 1),
                     !.pc = IF inv.caller = "sendAttestation" THEN "getKey"
                                                              ELSE "getKeyAgain"]

\* Fault of waitForConfirmation: the loop never left.
waitForConfirmationForever(inv, number) ==
    [inv EXCEPT !.cur = number, !.seen = @ \cup {number},
                !.reads = UpTo(@, MaxSleeps + 1), !.pc = "confirmSleep"]

\* waitForConfirmation, lines 140-141 and 143: read the head; leave the loop
\* when its number is not the receipt's.
waitForConfirmation(inv, number) ==
    IF number = inv.ref
    THEN [inv EXCEPT !.cur = number, !.seen = @ \cup {number},
                     !.reads = UpTo(@, MaxSleeps + 1), !.pc = "confirmSleep"]
    ELSE [inv EXCEPT !.cur = number, !.seen = @ \cup {number},
                     !.reads = UpTo(@, MaxSleeps + 1),
                     !.pc = IF inv.caller = "sendAttestation" THEN "getKey"
                                                              ELSE "getKeyAgain"]

confirmRead(p, i) ==
    /\ Running(p, i, "fetchKeySapphire", "confirmRead")
    /\ Continue(p, i, waitForConfirmation(prom[p][i], head))
    /\ net' = Count(p, "blocks")
    /\ UNCHANGED <<chainVars, lockbox, memoPolicy, restVars, calls>>

\* line 142: the 3 s sleep between two reads.  The loop has no bound; the
\* count of its sleeps stops at MaxSleeps.
confirmSleep(p, i) ==
    /\ Running(p, i, "fetchKeySapphire", "confirmSleep")
    /\ Continue(p, i, [prom[p][i] EXCEPT !.sleeps = UpTo(@, MaxSleeps),
                                          !.pc = "confirmRead"])
    /\ UNCHANGED <<chainVars, lockbox, memoPolicy, restVars, calls, net>>

\* getOrCreateKey, lines 152-153: the key the lockbox holds for the TcbId,
\* returned unless it is the absent value.
getKey(p, i) ==
    /\ Running(p, i, "fetchKeySapphire", "getKey")
    /\ LET key == lockbox[prom[p][i].tcb]
           inv == [prom[p][i] EXCEPT !.first = key, !.gets = @ + 1]
       IN  IF ~IsAbsent(key)
           THEN Settle(p, i, Resolved(inv, arrayify(key)))
           ELSE Continue(p, i, [inv EXCEPT !.pc = "createKey"])
    /\ net' = Count(p, "getKeys")
    /\ UNCHANGED <<chainVars, lockbox, memoPolicy, restVars, calls>>

\* lines 154-156: tx = await lockbox.createKey(tcbId, randomBytes(32))
createKey(p, i, rand) ==
    /\ Running(p, i, "fetchKeySapphire", "createKey")
    /\ Continue(p, i, [prom[p][i] EXCEPT !.rand = rand, !.creates = @ + 1,
                                          !.pc = "createWait"])
    /\ net' = Count(p, "createKeys")
    /\ UNCHANGED <<chainVars, lockbox, memoPolicy, restVars, calls>>

\* The lockbox registry holds a key for the TcbId: a value that is not zero.
Stored(box, tcbId) == \E k \in 1..Len(box[tcbId]) : box[tcbId][k] # 0

\* The lockbox registry's createKey: the first write for a TcbId wins, a
\* later one changes nothing.
LockboxCreate(box, tcbId, rand) ==
    IF Stored(box, tcbId)
    THEN box
    ELSE [box EXCEPT ![tcbId] = encode(Fill(KeyLen, rand))]

\* lines 158-159: the receipt of the createKey transaction, included in the
\* head block, its write made when it succeeded; then into
\* waitForConfirmation.
createWait(p, i, status) ==
    /\ Running(p, i, "fetchKeySapphire", "createWait")
    /\ IF TxWaitRejects(status)
       THEN /\ Settle(p, i, Rejected([prom[p][i] EXCEPT
                                         !.lost = Stored(lockbox, prom[p][i].tcb),
                                         !.creRcpt = status],
                                     "transaction failed"))
            /\ UNCHANGED lockbox
       ELSE /\ Continue(p, i, [prom[p][i] EXCEPT !.ref = head,
                                                 !.lost = Stored(lockbox, prom[p][i].tcb),
                                                 !.creRcpt = status,
                                                 !.caller = "getOrCreateKey",
                                                 !.sleeps = 0, !.reads = 0,
                                                 !.seen = {},
                                                 !.pc = "confirmRead"])
            /\ lockbox' = IF status = 1
                          THEN LockboxCreate(lockbox, prom[p][i].tcb, prom[p][i].rand)
                          ELSE lockbox
    /\ UNCHANGED <<chainVars, memoPolicy, restVars, calls, net>>

\* lines 160-161: the key getOrCreateKey returns after it has created one,
\* the value the lockbox holds now.
CreatedKey(box, tcbId, rand) == arrayify(box[tcbId])

\* lines 160-161: the key read again after the confirmation, and returned.
getKeyAgain(p, i) ==
    /\ Running(p, i, "fetchKeySapphire", "getKeyAgain")
    /\ Settle(p, i, Resolved([prom[p][i] EXCEPT !.gets = @ + 1],
                             CreatedKey(lockbox, prom[p][i].tcb, prom[p][i].rand)))
    /\ net' = Count(p, "getKeys")
    /\ UNCHANGED <<chainVars, lockbox, memoPolicy, restVars, calls>>

\* Fault of getCipher: the failure of fetchKeySapphire is not passed on, its
\* promise never settles.
getCipherResumeUnsettled(p, i) ==
    /\ Running(p, i, "getCipher", "awaitKey")
    /\ LET f == prom[p][prom[p][i].await]
       IN  /\ f.st # "pending"
           /\ IF f.st = "resolved"
              THEN Settle(p, i, Resolved(prom[p][i], f.key))
              ELSE Continue(p, i, [prom[p][i] EXCEPT !.pc = "unsettled"])
    /\ UNCHANGED <<chainVars, lockbox, memoPolicy, restVars, calls, net>>

\* lines 78 and 80: getCipher(1) resumes with the key of fetchKeySapphire and
\* builds the AEAD, or fails as it failed.
getCipherResume(p, i) ==
    /\ Running(p, i, "getCipher", "awaitKey")
    /\ LET f == prom[p][prom[p][i].await]
       IN  /\ f.st # "pending"
           /\ IF f.st = "resolved"
              THEN Settle(p, i, Resolved(prom[p][i], f.key))
              ELSE Settle(p, i, Rejected(prom[p][i], f.err))
    /\ UNCHANGED <<chainVars, lockbox, memoPolicy, restVars, calls, net>>

\* ------------------------------------------------------------------- chain

\* The chain produces a block.
NewBlock ==
    /\ head < MaxHead
    /\ head' = head + 1
    /\ UNCHANGED <<regress, lockbox, memoPolicy, restVars, prom, fetchMemo, cipherMemo, calls, net>>

\* The head the gateway reports falls back by one block: a reorganisation,
\* or an answer from a node that lags behind.
HeadRegress ==
    /\ regress < MaxRegress
    /\ head > 1
    /\ head' = head - 1
    /\ regress' = regress + 1
    /\ UNCHANGED <<lockbox, memoPolicy, restVars, prom, fetchMemo, cipherMemo, calls, net>>

\* Time passes.
Tick ==
    /\ clock < StartMs + MaxTicks * TickMs
    /\ clock' = clock + TickMs
    /\ UNCHANGED <<chainVars, lockbox, memoPolicy, prom, fetchMemo, cipherMemo, calls, net,
                   job, nft>>

\* ------------------------------------------------------------------ inputs

\* Bits of a hex digit a tampering flips.
Masks == {1, 8}

FlipBit(hex, pos, mask) ==
    [hex EXCEPT ![pos] = IF (@ \div mask) % 2 = 1 THEN @ - mask ELSE @ + mask]

\* Boxes sealed elsewhere with the test key of KeyId 0.
TestBoxes ==
    {[box |-> [keyId |-> 0, nonce |-> encode(Fill(NonceLen, 0)),
               data |-> encode(Seal(TestKey, Fill(NonceLen, 0), pt))],
      kind |-> "testkey", want |-> pt] : pt \in Plaintexts}

\* Boxes the process's own encrypt calls have returned.
FreshBoxes(p) ==
    {[box |-> calls[p][t].outBox, kind |-> "fresh", want |-> calls[p][t].pt] :
        t \in {u \in Slots : calls[p][u].op = "encrypt" /\ calls[p][u].pc = "done"}}

\* A box of another keyId than the one it was sealed under.
Rekeyed(in) ==
    {[box |-> [in.box EXCEPT !.keyId = k],
      kind |-> IF k \in {0, 1} THEN "tampered" ELSE "unknown",
      want |-> in.want] : k \in KeyIds \ {in.box.keyId}}

\* A box with one bit of its data or nonce flipped, or with another keyId.
Tampered(in) ==
    {[box |-> [in.box EXCEPT !.data = FlipBit(@, i, m)], kind |-> "tampered",
      want |-> in.want] : i \in 1..Len(in.box.data), m \in Masks}
    \cup
    {[box |-> [in.box EXCEPT !.nonce = FlipBit(@, i, m)], kind |-> "tampered",
      want |-> in.want] : i \in 1..Len(in.box.nonce), m \in Masks}
    \cup Rekeyed(in)

DecryptInputs(p) ==
    TestBoxes \cup FreshBoxes(p)
    \cup UNION {Rekeyed(in) : in \in TestBoxes}
    \cup UNION {Tampered(in) : in \in FreshBoxes(p)}

\* Another job's createKey transaction for the TcbId is included.
PeerCreateKey(tcbId, rand) ==
    /\ lockbox' = LockboxCreate(lockbox, tcbId, rand)
    /\ lockbox' # lockbox
    /\ UNCHANGED <<chainVars, memoPolicy, restVars, prom, fetchMemo, cipherMemo, calls, net>>

\* --------------------------------------------------------------------- job

\* nftrout.ts, line 8: 2^32 - 1 in the source; the seeds of the model are
\* bytes.
MAX_SEED == 255

\* Values of randomInt(0, MAX_SEED) (line 13) and of randomInt(0, 64) (line 19).
RandomSeeds == {0, 200}
RandomAdds == {0, 63}

\* Seeds of the parents' trout.json, and the token the job makes.
MetaSeeds == {1, 2}
TokenId == "token"

\* JSON.stringify({ seed }) as bytes, and the seed JSON.parse reads from
\* such bytes (-1: it throws).  The seeds of the model fit one byte.
SeedJson(seed) == <<seed>>
ParseSeed(bytes) == IF Len(bytes) = 1 THEN bytes[1] ELSE -1

\* The trout.json files an inputs directory may hold for a parent: with a
\* numeric seed, or with a seed sealed under the test key.
Metas(side) ==
    {[tokenId |-> side, kind |-> "number", num |-> n, box |-> NoBox] : n \in MetaSeeds}
    \cup {[tokenId |-> side, kind |-> "box", num |-> 0, box |-> t.box] : t \in TestBoxes}

\* The process has not exited.
Alive == job.exit = -1

\* The call slot of the job; main awaits every call before the next.
JobSlot == 1

\* lines 38-44: nftrout called, up to its await of encrypt.
nftroutCall(leftId, rightId, seed, awaited) ==
    [NoTrout EXCEPT !.pc = "encrypt", !.leftId = leftId, !.rightId = rightId,
                    !.seed = seed, !.awaited = awaited]

\* lines 12-15 of main: fs.access of the left parent's trout.json.  When it
\* succeeds nftrout is called without parents and, in the same turn of the
\* event loop, process.exit(0); when it fails main goes on to the parents.
mainAccess(ok, rnd) ==
    /\ Alive /\ job.pc = "access"
    /\ IF ok
       THEN /\ encryptCall(Main, JobSlot, SeedJson(rnd))
            /\ job' = [job EXCEPT !.gen = nftroutCall("null", "null", rnd, FALSE),
                                  !.pc = "exited", !.exit = 0]
       ELSE /\ job' = [job EXCEPT !.pc = "readLeft"]
            /\ UNCHANGED <<prom, fetchMemo, cipherMemo, calls>>
    /\ UNCHANGED <<chainVars, lockbox, memoPolicy, net, clock, nft>>

\* main's locals with the metadata of the parent it was reading.
WithMeta(j, meta) ==
    IF j.pc \in {"readLeft", "decryptLeft"}
    THEN [j EXCEPT !.left = meta, !.pc = "readRight"]
    ELSE [j EXCEPT !.right = meta, !.pc = "breed"]

\* lines 17-18 and 25-27: readMetadata of a parent, to its return or to its
\* await of decrypt.  NoMeta: the file cannot be read.
readMetadata(meta) ==
    /\ Alive /\ job.pc \in {"readLeft", "readRight"}
    /\ IF meta.kind = "box"
       THEN /\ decryptCall(Main, JobSlot, meta.box, "job", <<>>)
            /\ job' = IF job.pc = "readLeft"
                      THEN [job EXCEPT !.left = meta, !.pc = "decryptLeft"]
                      ELSE [job EXCEPT !.right = meta, !.pc = "decryptRight"]
       ELSE /\ job' = IF meta.kind = "none" THEN [job EXCEPT !.pc = "threw"]
                                            ELSE WithMeta(job, meta)
            /\ UNCHANGED <<prom, fetchMemo, cipherMemo, calls>>
    /\ UNCHANGED <<chainVars, lockbox, memoPolicy, net, clock, nft>>

\* lines 27-29: readMetadata resumes with the decrypted seed.
readDecrypted ==
    /\ Alive /\ job.pc \in {"decryptLeft", "decryptRight"}
    /\ Settled(calls[Main][JobSlot])
    /\ LET c == calls[Main][JobSlot]
           meta == IF job.pc = "decryptLeft" THEN job.left ELSE job.right
       IN  job' = IF c.pc = "failed" \/ ParseSeed(c.out) = -1
                  THEN [job EXCEPT !.pc = "threw"]
                  ELSE WithMeta(job, [meta EXCEPT !.kind = "number",
                                                  !.num = ParseSeed(c.out),
                                                  !.box = NoBox])
    /\ calls' = [calls EXCEPT ![Main][JobSlot] = NoCall]
    /\ UNCHANGED <<chainVars, lockbox, memoPolicy, net, clock, nft, prom, fetchMemo, cipherMemo>>

\* lines 19-20: the seed of the offspring.
breedSeed(left, right, rnd) == (left * 3 + right * 5 + rnd) % MAX_SEED

\* lines 19-21: main calls nftrout with the parents and awaits it.
mainBreed(rnd) ==
    /\ Alive /\ job.pc = "breed"
    /\ LET seed == breedSeed(job.left.num, job.right.num, rnd)
       IN  /\ encryptCall(Main, JobSlot, SeedJson(seed))
           /\ job' = [job EXCEPT !.gen = nftroutCall(job.left.tokenId, job.right.tokenId,
                                                     seed, TRUE),
                                 !.pc = "nftrout"]
    /\ UNCHANGED <<chainVars, lockbox, memoPolicy, net, clock, nft>>

\* lines 40-47: nftrout resumes with the sealed seed and starts the two
\* writes, or fails as encrypt failed.
nftroutEncrypted ==
    /\ Alive /\ job.gen.pc = "encrypt"
    /\ Settled(calls[Main][JobSlot])
    /\ LET c == calls[Main][JobSlot]
       IN  job' = IF c.pc = "failed"
                  THEN [job EXCEPT !.gen.pc = "failed",
                                   !.pc = IF job.gen.awaited THEN "threw" ELSE @]
                  ELSE [job EXCEPT !.gen.pc = "write",
                                   !.gen.desc = [left |-> job.gen.leftId,
                                                 right |-> job.gen.rightId,
                                                 tokenId |-> TokenId,
                                                 seed |-> c.outBox]]
    /\ calls' = [calls EXCEPT ![Main][JobSlot] = NoCall]
    /\ UNCHANGED <<chainVars, lockbox, memoPolicy, net, clock, nft, prom, fetchMemo, cipherMemo>>

\* line 48: trout.svg written, the drawing of the seed.
writeSvg ==
    /\ Alive /\ job.gen.pc = "write" /\ job.svg = -1
    /\ job' = [job EXCEPT !.svg = job.gen.seed]
    /\ UNCHANGED <<chainVars, lockbox, memoPolicy, net, clock, nft, prom, fetchMemo, cipherMemo,
                   calls>>

\* line 49: trout.json written, the descriptor.
writeJson ==
    /\ Alive /\ job.gen.pc = "write" /\ job.json = NoDesc
    /\ job' = [job EXCEPT !.json = job.gen.desc]
    /\ UNCHANGED <<chainVars, lockbox, memoPolicy, net, clock, nft, prom, fetchMemo, cipherMemo,
                   calls>>

\* lines 47-51: both writes are done and nftrout returns, to main when main
\* awaits it.
nftroutWritten ==
    /\ Alive /\ job.gen.pc = "write" /\ job.svg # -1 /\ job.json # NoDesc
    /\ job' = [job EXCEPT !.gen.pc = "done",
                          !.pc = IF job.gen.awaited THEN "returned" ELSE @]
    /\ UNCHANGED <<chainVars, lockbox, memoPolicy, net, clock, nft, prom, fetchMemo, cipherMemo,
                   calls>>

\* line 57: main has returned, or has thrown and the error is logged;
\* nothing is left to run and the process ends with code 0.
mainEnd ==
    /\ Alive /\ job.pc \in {"returned", "threw"}
    /\ job' = [job EXCEPT !.exit = 0]
    /\ UNCHANGED <<chainVars, lockbox, memoPolicy, net, clock, nft, prom, fetchMemo, cipherMemo,
                   calls>>

\* ------------------------------------------------ NFTrout (the contract)

jobVars == <<chainVars, lockbox, memoPolicy, prom, fetchMemo, cipherMemo, calls, net,
             clock, job>>

\* A call that returns with the contract as c, and one that reverts.
Return(c) == [ok |-> TRUE, c |-> c, error |-> ""]
Revert(c, error) == [ok |-> FALSE, c |-> c, error |-> error]

\* ERC721A._exists: minted and not burned.
exists(c, tokenId) ==
    /\ tokenId \in TokenIds
    /\ tokenId < c.nextTokenId
    /\ c.owners[tokenId] # Zero

\* lines 263-271: the hook ERC721A runs after every mint, transfer and burn.
\* The loop starts at startTokenId and runs while i < quantity.
afterTokenTransfers(studFees, from, startTokenId, quantity) ==
    IF from = Zero
    THEN studFees
    ELSE [t \in TokenIds |->
            IF t >= startTokenId /\ t < quantity THEN 0 ELSE studFees[t]]

\* ERC721A.transferFrom, as safeTransferFrom calls it for an account that is
\* no contract: approved is whether the library finds msg.sender to be the
\* owner or approved by the owner.
transferFrom(c, approved, from, to, tokenId) ==
    IF ~exists(c, tokenId) THEN Revert(c, "OwnerQueryForNonexistentToken")
    ELSE IF c.owners[tokenId] # from THEN Revert(c, "TransferFromIncorrectOwner")
    ELSE IF ~approved THEN Revert(c, "TransferCallerNotOwnerNorApproved")
    ELSE IF to = Zero THEN Revert(c, "TransferToZeroAddress")
    ELSE Return([c EXCEPT !.owners[tokenId] = to,
                          !.studFees = afterTokenTransfers(@, from, tokenId, 1),
                          !.last = Called("transfer", from, to, tokenId, 1)])

\* ERC721A._burn(tokenId), without the approval check.
burn(c, tokenId) ==
    [c EXCEPT !.owners[tokenId] = Zero,
              !.studFees = afterTokenTransfers(@, c.owners[tokenId], tokenId, 1),
              !.last = Called("burn", c.owners[tokenId], Zero, tokenId, 1)]

\* ERC721A._safeMint(to, quantity) to an account that is no contract.
safeMint(c, to, quantity) ==
    IF quantity = 0 THEN Revert(c, "MintZeroQuantity")
    ELSE Return([c EXCEPT
            !.owners = [t \in TokenIds |->
                          IF t >= c.nextTokenId /\ t < c.nextTokenId + quantity
                          THEN to ELSE @[t]],
            !.nextTokenId = @ + quantity,
            !.studFees = afterTokenTransfers(@, Zero, c.nextTokenId, quantity),
            !.last = Called("mint", Zero, to, c.nextTokenId, quantity)])

\* MerkleProof.verifyCalldata(proof, claimantsRoot, leaf) (line 94): a proof
\* verifies only for a leaf of the tree.
Proofs == {"path", "forged"}
verifyCalldata(proof, claimant, ranges) ==
    proof = "path" /\ <<claimant, ranges>> \in Leaves

\* lines 96-98: the inner loop of claim for range i (counted from 0 as in the
\* source), from j on. Its condition compares i, not j, with the quantity.
RECURSIVE claimRange(_, _, _, _, _, _)
claimRange(c, approved, claimant, ranges, i, j) ==
    IF ~(i < ranges[i + 1].quantity)
    THEN Return(c)
    ELSE LET r == transferFrom(c, approved, This, claimant,
                               ranges[i + 1].startTokenId + j)
         IN IF r.ok THEN claimRange(r.c, approved, claimant, ranges, i, j + 1) ELSE r

\* lines 95-99: the outer loop of claim, from range i on.
RECURSIVE claimRanges(_, _, _, _, _)
claimRanges(c, approved, claimant, ranges, i) ==
    IF ~(i < Len(ranges))
    THEN Return(c)
    ELSE LET r == claimRange(c, approved, claimant, ranges, i, 0)
         IN IF r.ok THEN claimRanges(r.c, approved, claimant, ranges, i + 1) ELSE r

\* The ranges callers pass to claim: those of the leaves.
RangeLists == {leaf[2] : leaf \in Leaves}

\* lines 90-100: claim(claimant, ranges, proof). A call that reverts leaves
\* the contract as it was.
claim(claimant, ranges, proof, approved) ==
    LET r == IF ~verifyCalldata(proof, claimant, ranges)
             THEN Revert(nft, "Unauthorized")
             ELSE claimRanges(nft, approved, claimant, ranges, 0)
        after == IF r.ok THEN r.c ELSE nft
        call == [Called("claim", This, claimant, 0, 0) EXCEPT
                    !.ranges = ranges,
                    !.valid = verifyCalldata(proof, claimant, ranges),
                    !.result = IF r.ok THEN "ok" ELSE r.error,
                    !.moved = {t \in TokenIds : after.owners[t] # nft.owners[t]}]
    IN /\ nft' = [after EXCEPT !.last = call]
       /\ UNCHANGED jobVars

\* ERC721A.transferFrom called by the holder of the token.
transfer(from, to, tokenId) ==
    LET r == transferFrom(nft, TRUE, from, to, tokenId)
    IN /\ r.ok
       /\ nft' = r.c
       /\ UNCHANGED jobVars

\* lines 131-135: delist(tokenId) called by sender.
delist(sender, tokenId) ==
    /\ exists(nft, tokenId)
    /\ sender = nft.owners[tokenId]
    /\ nft' = [nft EXCEPT !.studFees[tokenId] = 0,
                          !.last = Called("delist", sender, sender, tokenId, 1)]
    /\ UNCHANGED jobVars

\* struct RecipentQuantity, struct StudFee (lines 204-207, 217-221).
RecipentQuantity(recipient, quantity) == [recipient |-> recipient, quantity |-> quantity]
StudFee(stud, oldFee, newFee) == [stud |-> stud, oldFee |-> oldFee, newFee |-> newFee]

\* The lists a task carries, of 1..MaxItems entries.
ListsOf(S) == UNION {[1..n -> S] : n \in 1..MaxItems}

\* lines 235-237: the outputs of a Mint task, from output j on.
RECURSIVE mintOutputs(_, _, _)
mintOutputs(c, outputs, j) ==
    IF ~(j < Len(outputs))
    THEN Return(c)
    ELSE LET r == safeMint(c, outputs[j + 1].recipient, outputs[j + 1].quantity)
         IN IF r.ok THEN mintOutputs(r.c, outputs, j + 1) ELSE r

\* lines 243-246: the tokens of a Burn task, from token j on.
RECURSIVE burnTokens(_, _, _)
burnTokens(c, tokens, j) ==
    IF ~(j < Len(tokens))
    THEN c
    ELSE IF ~exists(c, tokens[j + 1])
         THEN burnTokens(c, tokens, j + 1)
         ELSE burnTokens(burn(c, tokens[j + 1]), tokens, j + 1)

\* lines 252-256: the listings of a List task, from listing j on.
RECURSIVE listStuds(_, _, _)
listStuds(c, listings, j) ==
    IF ~(j < Len(listings))
    THEN c
    ELSE LET l == listings[j + 1]
         IN IF c.studFees[l.stud] # l.oldFee
            THEN listStuds(c, listings, j + 1)
            ELSE listStuds([c EXCEPT !.studFees[l.stud] = l.newFee], listings, j + 1)

Sum(outputs) ==
    LET RECURSIVE total(_)
        total(j) == IF j > Len(outputs) THEN 0 ELSE outputs[j].quantity + total(j + 1)
    IN total(1)

\* lines 232-239: the accepted report holds a Mint task that starts at the
\* next token id.
acceptMint(startTokenId, outputs) ==
    LET r == mintOutputs(nft, outputs, 0)
    IN /\ startTokenId = nft.nextTokenId
       /\ nft.nextTokenId + Sum(outputs) - 1 <= MaxTokens
       /\ r.ok
       /\ nft' = r.c
       /\ UNCHANGED jobVars

\* lines 241-248: the accepted report holds a Burn task.
acceptBurn(tokens) ==
    /\ \E j \in DOMAIN tokens : exists(nft, tokens[j])
    /\ nft' = burnTokens(nft, tokens, 0)
    /\ UNCHANGED jobVars

\* lines 250-258: the accepted report holds a List task.
acceptList(listings) ==
    /\ nft' = [listStuds(nft, listings, 0) EXCEPT
                 !.last = Called("list", Zero, Zero, listings[1].stud, Len(listings))]
    /\ UNCHANGED jobVars

\* -------------------------------------------------------------------- next

Invs == 1..(2 * MaxCalls)

\* A step of the derivation of process p, its confirmation polls sleeping
\* MaxSleeps times at most.
Derive(p) ==
    \/ \E i \in Invs : getBlockLatest(p, i)
    \/ \E i \in Invs : getBlockPrev(p, i)
    \/ \E i \in Invs : attest(p, i)
    \/ \E i \in Invs, status \in {0, 1}, tcbId \in TcbIds \cup {""} :
          /\ status = 0 => tcbId = ""   \* a reverted transaction has no events
          /\ attestWait(p, i, status, tcbId)
    \/ \E i \in Invs : confirmRead(p, i)
    \/ \E i \in Invs : Running(p, i, "fetchKeySapphire", "confirmSleep")
                          /\ prom[p][i].sleeps < MaxSleeps
                          /\ confirmSleep(p, i)
    \/ \E i \in Invs : getKey(p, i)
    \/ \E i \in Invs, rand \in KeyFills : createKey(p, i, rand)
    \/ \E i \in Invs, status \in {0, 1} : createWait(p, i, status)
    \/ \E i \in Invs : getKeyAgain(p, i)
    \/ \E i \in Invs : getCipherResume(p, i)

\* One job process and its calls, on a chain other jobs use too.
Next ==
    \/ \E s \in Slots, pt \in Plaintexts : encryptStart(Main, s, pt)
    \/ \E s \in Slots, nonce \in Nonces : encryptResume(Main, s, nonce)
    \/ \E s \in Slots : FreeSlot(Main, s) /\ \E in \in DecryptInputs(Main) :
          decryptStart(Main, s, in.box, in.kind, in.want)
    \/ \E s \in Slots : decryptResume(Main, s)
    \/ Derive(Main)
    \/ \E tcbId \in TcbIds, rand \in KeyFills : PeerCreateKey(tcbId, rand)
    \/ NewBlock
    \/ HeadRegress

Spec == Init /\ [][Next]_vars

\* Every job process encrypts once, on the one chain.
NextRace ==
    \/ \E p \in Procs : encryptStart(p, 1, <<>>)
    \/ \E p \in Procs, nonce \in Nonces : encryptResume(p, 1, nonce)
    \/ \E p \in Procs : Derive(p)
    \/ NewBlock
    \/ HeadRegress

SpecRace == Init /\ [][NextRace]_vars

\* Boxes sealed elsewhere that name KeyId 1.
KeyOneBoxes == {in \in UNION {Rekeyed(t) : t \in TestBoxes} : in.box.keyId = 1}

\* One job process whose calls all need the attested key, its confirmation
\* polls unbounded.
NextLive ==
    \/ \E s \in Slots : encryptStart(Main, s, <<>>)
    \/ \E s \in Slots, nonce \in Nonces : encryptResume(Main, s, nonce)
    \/ \E s \in Slots : FreeSlot(Main, s) /\ \E in \in KeyOneBoxes :
          decryptStart(Main, s, in.box, in.kind, in.want)
    \/ \E s \in Slots : decryptResume(Main, s)
    \/ Derive(Main)
    \/ \E i \in Invs : Running(Main, i, "fetchKeySapphire", "confirmSleep")
                          /\ prom[Main][i].sleeps = MaxSleeps
                          /\ confirmSleep(Main, i)
    \/ NewBlock
    \/ HeadRegress

\* The event loop runs the continuation of every settled promise, timers
\* fire and the gateway answers the poll's reads.
Scheduling ==
    /\ \A s \in Slots : WF_vars(\E nonce \in Nonces : encryptResume(Main, s, nonce))
    /\ \A s \in Slots : WF_vars(decryptResume(Main, s))
    /\ \A i \in Invs : WF_vars(getCipherResume(Main, i))
    /\ \A i \in Invs : WF_vars(confirmRead(Main, i))
    /\ \A i \in Invs : WF_vars(confirmSleep(Main, i))

SpecLive == Init /\ [][NextLive]_vars /\ Scheduling

\* One job process that encrypts, while time passes.
NextTime ==
    \/ \E s \in Slots : encryptStart(Main, s, <<>>)
    \/ \E s \in Slots, nonce \in Nonces : encryptResume(Main, s, nonce)
    \/ Derive(Main)
    \/ NewBlock
    \/ HeadRegress
    \/ Tick

SpecTime == Init /\ [][NextTime]_vars

\* The job's main in process Main, with the secret-management module it
\* calls, while the process lives.
NextJob ==
    \/ \E ok \in BOOLEAN, rnd \in RandomSeeds : mainAccess(ok, rnd)
    \/ \E meta \in Metas(IF job.pc = "readLeft" THEN "left" ELSE "right") \cup {NoMeta} :
          readMetadata(meta)
    \/ readDecrypted
    \/ \E rnd \in RandomAdds : mainBreed(rnd)
    \/ nftroutEncrypted
    \/ writeSvg
    \/ writeJson
    \/ nftroutWritten
    \/ mainEnd
    \/ Alive /\ \E nonce \in Nonces : encryptResume(Main, JobSlot, nonce)
    \/ Alive /\ decryptResume(Main, JobSlot)
    \/ Alive /\ Derive(Main)
    \/ NewBlock
    \/ HeadRegress

SpecJob == Init /\ [][NextJob]_vars

\* The contract alone: claims, holders' transfers, delistings and the tasks
\* of accepted reports.
NextTrout ==
    \/ \E claimant \in Users, ranges \in RangeLists, proof \in Proofs, approved \in BOOLEAN :
          claim(claimant, ranges, proof, approved)
    \/ \E from \in Users, to \in Addrs, tokenId \in TokenIds : transfer(from, to, tokenId)
    \/ \E sender \in Users, tokenId \in TokenIds : delist(sender, tokenId)
    \/ \E startTokenId \in TokenIds,
          outputs \in ListsOf({RecipentQuantity(u, q) : u \in Users, q \in 1..MaxQuantity}) :
          acceptMint(startTokenId, outputs)
    \/ \E tokens \in ListsOf(TokenIds) : acceptBurn(tokens)
    \/ \E listings \in ListsOf({StudFee(t, o, n) : t \in TokenIds, o \in Fees, n \in Fees}) :
          acceptList(listings)

SpecTrout == Init /\ [][NextTrout]_vars

\* ------------------------------------------------------------------ claims

FetchesOf(P) == {i \in 1..Len(P) : P[i].fn = "fetchKeySapphire"}
Fetches(p) == FetchesOf(prom[p])
PendingOf(P) == {i \in 1..Len(P) : P[i].st = "pending"}

\* The cipher of keyId is resolved in process p.
CipherResolved(p, keyId) ==
    /\ MemoHas(cipherMemo[p][keyId])
    /\ prom[p][cipherMemo[p][keyId]].st = "resolved"

\* Process p starts a call for keyId in this step.
Starts(p, s, keyId) ==
    /\ calls[p][s].op = "none"
    /\ calls'[p][s].op # "none"
    /\ calls'[p][s].keyId = keyId

\* The step starts no derivation and makes no network call.
NoDerivationStarted(p) ==
    /\ net' = net
    /\ FetchesOf(prom'[p]) = FetchesOf(prom[p])
    /\ PendingOf(prom'[p]) = PendingOf(prom[p])

\* C1: in one process, concurrent calls that need the key of KeyId 1 start
\* exactly one derivation: no two derivations are pending together, a further
\* one starts only after one has failed (never, when failures stay cached),
\* there is at most one attest and one createKey transaction per derivation,
\* calls awaiting a pending cipher await the same one, and all calls that
\* complete with KeyId 1 used the same key.
C1_OneDerivation ==
    \A p \in Procs :
        /\ Cardinality(Fetches(p) \cap PendingOf(prom[p])) <= 1
        /\ Cardinality(Fetches(p))
              <= 1 + Cardinality({i \in Fetches(p) : prom[p][i].st = "rejected"})
        /\ memoPolicy = "keep" => Cardinality(Fetches(p)) <= 1
        /\ net[p].attests <= Cardinality(Fetches(p))
        /\ net[p].createKeys <= Cardinality(Fetches(p))
        /\ \A s, t \in Slots :
              /\ calls[p][s].pc = "awaitCipher" /\ calls[p][t].pc = "awaitCipher"
              /\ calls[p][s].keyId = 1 /\ calls[p][t].keyId = 1
              /\ prom[p][calls[p][s].await].st = "pending"
              /\ prom[p][calls[p][t].await].st = "pending"
              => calls[p][s].await = calls[p][t].await
        /\ \A s, t \in Slots :
              /\ calls[p][s].pc = "done" /\ calls[p][t].pc = "done"
              /\ calls[p][s].keyId = 1 /\ calls[p][t].keyId = 1
              => calls[p][s].key = calls[p][t].key

\* Two calls, the second issued while the derivation was pending, have both
\* completed on the one derivation.
C1_Witness ==
    /\ calls[Main][1].pc = "done" /\ calls[Main][1].keyId = 1
    /\ calls[Main][2].pc = "done" /\ calls[Main][2].keyId = 1
    /\ calls[Main][1].how = "started"
    /\ calls[Main][2].how = "joined"
    /\ Cardinality(Fetches(Main)) = 1
    /\ net[Main].attests = 1
    /\ calls[Main][1].key = calls[Main][2].key

C3_Fails ==
    \A p \in Procs, s \in Slots :
        calls[p][s].op = "decrypt" /\ calls[p][s].keyId \notin {0, 1}
        => /\ prom[p][calls[p][s].await].st = "rejected"
           /\ prom[p][calls[p][s].await].err = "unknown key"
           /\ Settled(calls[p][s])
                 => calls[p][s].pc = "failed" /\ calls[p][s].err = "unknown key"

C3_UnknownKey ==
    /\ []C3_Fails
    /\ [][\A p \in Procs, s \in Slots, k \in KeyIds \ {0, 1} :
             Starts(p, s, k) => NoDerivationStarted(p)]_vars

\* The unknown key is refused after the key of KeyId 1 has been resolved.
C3_Witness ==
    \E s \in Slots :
        /\ calls[Main][s].keyId = 2
        /\ calls[Main][s].pc = "failed"
        /\ calls[Main][s].err = "unknown key"
        /\ CipherResolved(Main, 1)

\* C4: the cipher of KeyId 0 is built from the all-42 test key, never from
\* the attested key, a Box sealed with the test key opens under KeyId 0, and
\* the step that issues a call for KeyId 0 starts no derivation and makes no
\* network call.
C4_TestCipher ==
    \A p \in Procs :
        /\ \A i \in 1..Len(prom[p]) :
              prom[p][i].fn = "getCipher" /\ prom[p][i].arg = 0
              => prom[p][i].st = "resolved" /\ prom[p][i].key = Fill(KeyLen, 42)
        /\ \A s \in Slots :
              /\ calls[p][s].keyId = 0 /\ calls[p][s].pc = "done"
                    => calls[p][s].key = Fill(KeyLen, 42)
              /\ calls[p][s].kind = "testkey" /\ Settled(calls[p][s])
                    => calls[p][s].pc = "done" /\ calls[p][s].out = calls[p][s].want

C4_TestKey ==
    /\ []C4_TestCipher
    /\ [][\A p \in Procs, s \in Slots : Starts(p, s, 0) => NoDerivationStarted(p)]_vars

\* A call for KeyId 0 has completed with the test key after the attested key
\* of KeyId 1 was resolved.
C4_Witness ==
    \E s \in Slots :
        /\ calls[Main][s].keyId = 0
        /\ calls[Main][s].pc = "done"
        /\ calls[Main][s].how = "started"
        /\ calls[Main][s].key = Fill(KeyLen, 42)
        /\ CipherResolved(Main, 1)
        /\ prom[Main][cipherMemo[Main][1]].key # Fill(KeyLen, 42)

\* C5: waitForConfirmation returns only once a head with a number strictly
\* greater than the receipt's has been observed.
C5_StrictlyGreater ==
    \A p \in Procs, i \in Invs :
        /\ i <= Len(prom[p])
        /\ prom[p][i].st = "pending"
        /\ prom[p][i].pc \in {"getKey", "getKeyAgain"}
        => \E n \in prom[p][i].seen : n > prom[p][i].ref

\* C6: a derivation makes no lockbox getKey or createKey before its
\* attestation is confirmed: none up to and during the wait on the attest
\* receipt, and it reaches its first getKey only from that wait, having
\* observed a head whose number is not the attesting block's.
C6_ConfirmedFirst ==
    \A p \in Procs, i \in Invs :
        i <= Len(prom[p]) /\ prom[p][i].fn = "fetchKeySapphire" /\ prom[p][i].st = "pending"
        => LET v == prom[p][i]
           IN  /\ v.pc \in {"getBlockLatest", "getBlockPrev", "attest", "attestWait"}
                     => v.gets = 0 /\ v.creates = 0 /\ v.tcb = ""
               /\ v.pc \in {"confirmRead", "confirmSleep"} /\ v.caller = "sendAttestation"
                     => v.gets = 0 /\ v.creates = 0
               /\ v.pc = "getKey"
                     => /\ v.gets = 0 /\ v.creates = 0
                        /\ v.caller = "sendAttestation"
                        /\ \E n \in v.seen : n # v.ref

\* A derivation is about to read the lockbox after a wait that slept on the
\* attesting block.
C6_Witness ==
    \E i \in Invs :
        /\ i <= Len(prom[Main])
        /\ prom[Main][i].pc = "getKey"
        /\ prom[Main][i].sleeps = 1
        /\ prom[Main][i].ref \in prom[Main][i].seen
        /\ prom[Main][i].tcb = "tcbA"

NonZero(hex) == \E k \in 1..Len(hex) : hex[k] # 0

\* C7: when a getOrCreateKey call has created the key of a TcbId, a call for
\* the same TcbId whose read finds that key returns the same key bytes with
\* that single read and no createKey transaction.
C7_Idempotent ==
    \A p, q \in Procs, i, j \in Invs :
        /\ i <= Len(prom[p]) /\ j <= Len(prom[q])
        /\ prom[p][i].fn = "fetchKeySapphire" /\ prom[q][j].fn = "fetchKeySapphire"
        /\ prom[p][i].st = "resolved" /\ prom[p][i].creates = 1 /\ ~prom[p][i].lost
        /\ prom[q][j].st = "resolved" /\ prom[q][j].tcb = prom[p][i].tcb
        /\ NonZero(prom[q][j].first)
        => /\ prom[q][j].key = prom[p][i].key
           /\ prom[q][j].creates = 0
           /\ prom[q][j].gets = 1

\* One process has created the key and another has then resolved it.
C7_Witness ==
    \E p, q \in Procs, i, j \in Invs :
        /\ p # q /\ i <= Len(prom[p]) /\ j <= Len(prom[q])
        /\ prom[p][i].st = "resolved" /\ prom[p][i].creates = 1 /\ ~prom[p][i].lost
        /\ prom[q][j].st = "resolved" /\ prom[q][j].fn = "fetchKeySapphire"
        /\ NonZero(prom[q][j].first)
        /\ prom[q][j].creates = 0
        /\ prom[q][j].key = prom[p][i].key

\* Two getOrCreateKey calls of different processes that both read the absent
\* value and both submitted createKey, a's included first and b's after it.
Raced(a, b) ==
    /\ a.fn = "fetchKeySapphire" /\ b.fn = "fetchKeySapphire"
    /\ a.tcb = b.tcb
    /\ a.creates = 1 /\ b.creates = 1
    /\ ~NonZero(a.first) /\ ~NonZero(b.first)
    /\ a.st = "resolved" /\ ~a.lost
    /\ b.pc = "end" /\ b.lost

\* C8: after such a race both processes end with the same key bytes.
C8_BothEndWithKey ==
    \A p, q \in Procs, i, j \in Invs :
        /\ p # q /\ i <= Len(prom[p]) /\ j <= Len(prom[q])
        /\ Raced(prom[p][i], prom[q][j])
        => prom[q][j].st = "resolved" /\ prom[q][j].key = prom[p][i].key

\* C9: decrypt of a Box that differs from the one encrypt returned in a bit
\* of its data or nonce, or in its keyId, fails; decrypt returns only the
\* plaintext that was encrypted, and nothing when it fails.
C9_Authentication ==
    \A p \in Procs, s \in Slots :
        calls[p][s].op = "decrypt"
        => /\ calls[p][s].kind = "tampered" /\ Settled(calls[p][s])
                 => calls[p][s].pc = "failed"
           /\ calls[p][s].pc = "done"
                 => /\ calls[p][s].kind \in {"fresh", "testkey"}
                    /\ calls[p][s].out = calls[p][s].want
           /\ calls[p][s].pc = "failed" => calls[p][s].out = <<>>

\* A tampered Box has been refused by the cipher.
C9_Witness ==
    \E s \in Slots :
        /\ calls[Main][s].kind = "tampered"
        /\ calls[Main][s].keyId = 1
        /\ calls[Main][s].pc = "failed"
        /\ calls[Main][s].err = "authentication failure"

CiphersOf(P, keyId) ==
    {i \in 1..Len(P) : P[i].fn = "getCipher" /\ P[i].arg = keyId}

\* C10: once the cipher of a KeyId is resolved it stays the cache entry with
\* the same key, no further getCipher or fetchKeySapphire body starts for it
\* and (for KeyId 1) no further network call is made; every call completed
\* for the KeyId used that key.
C10_Cached ==
    \A p \in Procs, k \in {0, 1} :
        CipherResolved(p, k)
        => \A s \in Slots :
              calls[p][s].pc = "done" /\ calls[p][s].keyId = k
              => calls[p][s].key = prom[p][cipherMemo[p][k]].key

C10_DerivedOnce ==
    /\ []C10_Cached
    /\ [][\A p \in Procs, k \in {0, 1} :
             CipherResolved(p, k)
             => /\ cipherMemo'[p][k] = cipherMemo[p][k]
                /\ prom'[p][cipherMemo[p][k]] = prom[p][cipherMemo[p][k]]
                /\ CiphersOf(prom'[p], k) = CiphersOf(prom[p], k)
                /\ k = 1 => /\ net'[p] = net[p]
                            /\ FetchesOf(prom'[p]) = FetchesOf(prom[p])]_vars

\* A call issued after the key of KeyId 1 was resolved has completed on the
\* cached cipher.
C10_Witness ==
    \E s \in Slots :
        /\ calls[Main][s].keyId = 1
        /\ calls[Main][s].how = "cached"
        /\ calls[Main][s].pc = "done"
        /\ net[Main].attests = 1

\* C11: the attestation step returns a TcbId only for a success receipt
\* with an Attested event; for a receipt with a failure status it fails
\* with 'attestation tx failed', for a success receipt without the event
\* with 'could not retrieve attestation id', and in both cases the
\* derivation makes no lockbox call and ends without a key.
C11_AttestFails ==
    \A p \in Procs : \A i \in Fetches(p) :
        LET inv == prom[p][i]
            Failed(err) ==
                /\ inv.st = "rejected" /\ inv.err = err /\ inv.pc = "end"
                /\ inv.tcb = "" /\ inv.gets = 0 /\ inv.creates = 0
                /\ inv.key = <<>>
        IN  inv.attRcpt # <<>> =>
                /\ inv.tcb # "" => inv.attRcpt = <<1, inv.tcb>>
                /\ inv.attRcpt[1] # 1 => Failed("attestation tx failed")
                /\ inv.attRcpt = <<1, "">> => Failed("could not retrieve attestation id")

\* The key fetchKeySapphire invocation f gave to no one: the getCipher
\* invocation that awaits it ends rejected in the step that resumes it.
NoCipherFrom(p, j) ==
    prom'[p][j] # prom[p][j] =>
        prom'[p][j].st = "rejected" /\ prom'[p][j].key = <<>>

C12_CreateFailed ==
    \A p \in Procs : \A i \in Fetches(p) :
        prom[p][i].creRcpt = 0 =>
            /\ prom[p][i].st = "rejected" /\ prom[p][i].pc = "end"
            /\ prom[p][i].key = <<>>
            /\ prom[p][i].gets = 1

C12_NoCipher ==
    \A p \in Procs, j \in Invs :
        /\ Running(p, j, "getCipher", "awaitKey")
        /\ prom[p][prom[p][j].await].creRcpt = 0
        => NoCipherFrom(p, j)

\* C12: a createKey transaction whose receipt has a non-success status
\* aborts the derivation: it ends rejected, with no key and without the
\* second lockbox read, and the getCipher(1) that awaits it builds no cipher.
C12_CreateFatal == []C12_CreateFailed /\ [][C12_NoCipher]_vars

\* A createKey transaction of the process has failed, and its call with it.
C12_Witness ==
    /\ \E i \in Fetches(Main) : prom[Main][i].creRcpt = 0
    /\ \E j \in 1..Len(prom[Main]) :
          /\ prom[Main][j].fn = "getCipher" /\ prom[Main][j].arg = 1
          /\ prom[Main][j].st = "rejected"
          /\ prom[Main][j].err = "transaction failed"
    /\ \E s \in Slots : calls[Main][s].pc = "failed" /\ calls[Main][s].keyId = 1

\* The call of slot s awaits a cipher whose derivation has failed.
DerivationFailed(p, s) ==
    /\ calls[p][s].pc = "awaitCipher"
    /\ LET g == prom[p][calls[p][s].await]
       IN  \/ g.st = "rejected"
           \/ /\ g.st = "pending" /\ g.pc = "awaitKey"
              /\ prom[p][g.await].st = "rejected"

C13_NoKey ==
    \A p \in Procs, s \in Slots :
        DerivationFailed(p, s) /\ calls'[p][s] # calls[p][s]
        => /\ calls'[p][s].pc = "failed"
           /\ calls'[p][s].err = prom[p][calls[p][s].await].err
           /\ calls'[p][s].err # ""
           /\ calls'[p][s].key = <<>>
           /\ calls'[p][s].out = <<>>
           /\ calls'[p][s].outBox = NoBox

\* C13: when the derivation of a KeyId fails, every call that awaits it
\* fails with its error: none proceeds with a key and none waits forever.
C13_Propagates ==
    /\ [][C13_NoKey]_vars
    /\ \A s \in Slots : DerivationFailed(Main, s) ~> calls[Main][s].pc = "failed"

\* Two calls awaited the one derivation, and both have failed as it did.
C13_Witness ==
    /\ calls[Main][1].how = "started" /\ calls[Main][2].how = "joined"
    /\ calls[Main][1].pc = "failed" /\ calls[Main][2].pc = "failed"
    /\ calls[Main][1].err = calls[Main][2].err
    /\ calls[Main][1].err = "could not retrieve attestation id"

\* The poll of invocation i is in waitForConfirmation.
Waiting(p, i) ==
    \/ Running(p, i, "fetchKeySapphire", "confirmRead")
    \/ Running(p, i, "fetchKeySapphire", "confirmSleep")

C15_OnlyByRead ==
    \A p \in Procs, i \in Invs :
        Waiting(p, i) /\ ~Waiting(p, i)'
        => prom[p][i].pc = "confirmRead" /\ head # prom[p][i].ref

C15_NoBound ==
    \A i \in Invs :
        Running(Main, i, "fetchKeySapphire", "confirmSleep")
        => ENABLED confirmSleep(Main, i)

\* C15: waitForConfirmation returns when the head comes to differ from the
\* reference block number and stays so; it leaves the loop by no step but a
\* read of a differing head, and its sleep is never refused, so with a head
\* that does not change it polls forever.
C15_Liveness ==
    /\ \A i \in Invs : []<>(~Waiting(Main, i) \/ head = prom[Main][i].ref)
    /\ [][C15_OnlyByRead]_vars
    /\ []C15_NoBound

\* The first derivation of the process still polls a head that has not
\* changed, after more reads than any bounded poll makes.
C15_Witness ==
    /\ Len(prom[Main]) = 2
    /\ Waiting(Main, 2)
    /\ head = prom[Main][2].ref
    /\ net[Main].blocks = MaxNet

\* C16: the poll starts with a read and alternates reads and sleeps: it
\* sleeps only after a read of the reference block number and returns on
\* the first read of another, after k sleeps and k + 1 reads.
C16_PollSequence ==
    \A p \in Procs : \A i \in Fetches(p) :
        LET inv == prom[p][i]
        IN  /\ inv.pc = "confirmRead" =>
                /\ inv.reads = inv.sleeps
                /\ inv.seen = IF inv.reads = 0 THEN {} ELSE {inv.ref}
            /\ inv.pc = "confirmSleep" =>
                /\ inv.reads = inv.sleeps + 1
                /\ inv.cur = inv.ref /\ inv.seen = {inv.ref}
            /\ inv.pc \in {"getKey", "getKeyAgain"} =>
                /\ inv.reads = inv.sleeps + 1
                /\ inv.cur # inv.ref
                /\ inv.seen = (IF inv.sleeps = 0 THEN {} ELSE {inv.ref}) \cup {inv.cur}

\* The chain advanced during the one sleep: two reads, the first of the
\* reference block and the second of its successor.
C16_Witness ==
    \E i \in Fetches(Main) :
        /\ prom[Main][i].pc = "getKey"
        /\ prom[Main][i].reads = 2 /\ prom[Main][i].sleeps = 1
        /\ prom[Main][i].seen = {prom[Main][i].ref, prom[Main][i].ref + 1}

\* The registration of the invocation is built.
Registered(inv) ==
    /\ inv.fn = "fetchKeySapphire" /\ inv.st = "pending"
    /\ inv.pc \notin {"start", "getBlockLatest", "getBlockPrev"}

C14_Registration ==
    \A p \in Procs, i \in Invs :
        i <= Len(prom[p]) /\ Registered(prom[p][i]) =>
            LET inv == prom[p][i]
            IN  /\ inv.reg.expiry = inv.reg.tokenExpiry
                /\ inv.reg.expiry = (inv.now \div 1000) + 3600
                /\ inv.now <= clock
                /\ inv.pc \in {"attest", "attestWait"} =>
                       /\ inv.reg.baseBlockNumber = inv.cur - 1
                       /\ inv.reg.baseBlockHash = getBlock(inv.cur - 1).hash
                       /\ inv.reg.baseBlockNumber < inv.cur

C14_ReadsClockAndHead ==
    \A p \in Procs, i \in Invs :
        /\ i = Len(prom[p]) + 1 /\ i <= Len(prom'[p])
           /\ prom'[p][i].fn = "fetchKeySapphire"
           => prom'[p][i].now = clock
        /\ Running(p, i, "fetchKeySapphire", "getBlockLatest")
           /\ prom'[p][i].pc = "getBlockPrev"
           => prom'[p][i].cur = head

C18_WrittenBeforeExit ==
    job.exit = 0 /\ job.gen.pc # "none" /\ job.gen.leftId = "null"
    => /\ job.gen.pc = "done"
       /\ job.svg = job.gen.seed
       /\ job.json.seed # NoBox

\* ---------------------------------------------------------------- C19

\* C19: right after a transfer or a burn of the tokens startTokenId ..
\* startTokenId + quantity - 1 from an address other than the zero address,
\* with startTokenId >= 1, the stud fee of each of those tokens is 0.
C19_FeesCleared ==
    /\ nft.last.op \in {"transfer", "burn"}
    /\ nft.last.from # Zero
    /\ nft.last.startTokenId >= 1
    => \A t \in nft.last.startTokenId .. nft.last.startTokenId + nft.last.quantity - 1 :
          nft.studFees[t] = 0

\* ---------------------------------------------------------------- C20

\* The tokens startTokenId .. startTokenId + quantity - 1 of every range.
RangeTokens(ranges) ==
    UNION {ranges[i].startTokenId .. ranges[i].startTokenId + ranges[i].quantity - 1 :
             i \in DOMAIN ranges}

\* C20: a claim with a valid proof returns, and the tokens that changed owner
\* are exactly those of its ranges, now owned by the claimant; a claim with
\* an invalid proof reverts with Unauthorized and no token changes owner.
C20_Claim ==
    nft.last.op = "claim"
    => IF nft.last.valid
       THEN /\ nft.last.result = "ok"
            /\ nft.last.moved = RangeTokens(nft.last.ranges)
            /\ \A t \in nft.last.moved : nft.owners[t] = nft.last.to
       ELSE /\ nft.last.result = "Unauthorized"
            /\ nft.last.moved = {}

====
